---------------------------- MODULE Spec2Model ----------------------------
(***************************************************************************)
(* Model of awhlam/filename_sanitizer: main.py (filename length            *)
(* truncation with collision-safe renaming) and folder_sorter.py (sorting  *)
(* files into per-date folders).                                           *)
(*                                                                         *)
(* A filename is a sequence of one-character strings, so that slicing,     *)
(* concatenation and the stem/suffix split are computed as Python and      *)
(* pathlib compute them.                                                   *)
(***************************************************************************)
EXTENDS Integers, Sequences, FiniteSets, TLC

VARIABLES
    \* ---- pure-function harnesses (truncate / resolve / classify) ----
    fn,             \* which harness is running ("none" in an orchestrator run)
    arg,            \* the harness's input
    res,            \* the results computed so far (a sequence)
    \* ---- orchestrator runs ----
    prog,           \* "sort" (folder_sorter.main), "trunc" (main.main), "none"
    pc,             \* position of the run
    fs,             \* the filesystem below the input directory
    fs0,            \* the filesystem when the run started (history)
    listing,        \* the regular, non-hidden files found, in iteration order
    files,          \* folder_sorter.py: the batch move_files_to_folder is moving
    target_folder,  \* folder_sorter.py: the folder of that batch
    date_groups,    \* folder_sorter.py: dict in insertion order, <<[key, files]>>
    files_to_sort,  \* folder_sorter.py: dict in insertion order, <<[key, files]>>
    files_to_unsorted,
    total_files,
    idx,            \* number of files of the current loop already attempted
    bucket,         \* folder_sorter.py: number of date buckets already moved
    counts,         \* the run's counters
    log             \* history: one record per attempted file, in order

fnvars   == <<fn, arg, res>>
runvars  == <<prog, pc, fs, fs0, listing, files, target_folder, date_groups,
              files_to_sort, files_to_unsorted, total_files, idx, bucket,
              counts, log>>
vars     == <<fn, arg, res, prog, pc, fs, fs0, listing, files, target_folder,
              date_groups, files_to_sort, files_to_unsorted, total_files, idx,
              bucket, counts, log>>

(***************************************************************************)
(* Program constants                                                       *)
(***************************************************************************)
MAX_FILENAME_LENGTH == 100

UNSORTED_FOLDER_NAME == <<"U", "n", "s", "o", "r", "t", "e", "d">>

\* Python's None, as a value no filename and no date string equals.
None == <<"None">>

Digits == {"0", "1", "2", "3", "4", "5", "6", "7", "8", "9"}

(***************************************************************************)
(* Bounds of the model                                                     *)
(***************************************************************************)
MaxNameLen  == 5    \* truncate harness: longest name
MaxLimit    == 4    \* truncate harness: largest maximum length
MaxCounter  == 10   \* resolve harness: highest counter candidate in the directory
MaxDateLen  == 9    \* classify harness: longest name
MaxListed   == 4    \* orchestrators: most regular, non-hidden files listed
MaxOther    == 3    \* orchestrators: most other entries (hidden, folders, folder contents)

(***************************************************************************)
(* Strings                                                                 *)
(***************************************************************************)
Rep(c, n) == [i \in 1..n |-> c]

Max(a, b) == IF a >= b THEN a ELSE b
Min(a, b) == IF a <= b THEN a ELSE b

\* s[:k] of Python: a negative k counts from the end.
PySliceTo(s, k) ==
    IF k >= 0 THEN SubSeq(s, 1, Min(k, Len(s)))
              ELSE SubSeq(s, 1, Max(0, Len(s) + k))

\* s.startswith(".")
startswith_dot(s) == Len(s) > 0 /\ s[1] = "."

\* 1-based index of the last "." of the name, 0 when there is none (str.rfind + 1).
rfind_dot(name) ==
    LET D == {i \in 1..Len(name) : name[i] = "."}
    IN  IF D = {} THEN 0 ELSE CHOOSE i \in D : \A j \in D : j <= i

\* pathlib's PurePath.suffix: name[i:] when 0 < i < len(name) - 1 for i = rfind("."),
\* so a leading dot and a trailing dot start no suffix.
suffix(name) ==
    LET d == rfind_dot(name)
    IN  IF d >= 2 /\ d < Len(name) THEN SubSeq(name, d, Len(name)) ELSE << >>

\* pathlib's PurePath.stem, the rest of the name.
stem(name) ==
    LET d == rfind_dot(name)
    IN  IF d >= 2 /\ d < Len(name) THEN SubSeq(name, 1, d - 1) ELSE name

DigitChar == <<"0", "1", "2", "3", "4", "5", "6", "7", "8", "9">>

\* str(n) of a counter, as the f-strings format it.
RECURSIVE IntToStr(_)
IntToStr(n) ==
    IF n < 10 THEN <<DigitChar[n + 1]>>
              ELSE IntToStr(n \div 10) \o <<DigitChar[(n % 10) + 1]>>

\* f"{stem}_{counter}{suffix}"
counter_name(st, counter, suf) == st \o <<"_">> \o IntToStr(counter) \o suf

(***************************************************************************)
(* main.py: truncate_file_name                                             *)
(***************************************************************************)
\* variant: the whole name is cut, extension included
truncate_drops_suffix(name, limit) ==
    IF Len(name) > limit THEN PySliceTo(name, limit) ELSE name

\* variant: the operands of the subtraction are swapped
truncate_swapped_operands(name, limit) ==
    IF Len(name) > limit
    THEN LET suffix_len   == Len(suffix(name))
             stem_max_len == suffix_len - limit
         IN  PySliceTo(stem(name), stem_max_len) \o suffix(name)
    ELSE name

\* The body of truncate_file_name, with the module's MAX_FILENAME_LENGTH as `limit`.
truncate_with_limit(name, limit) ==
    IF Len(name) > limit
    THEN LET suffix_len   == Len(suffix(name))
             stem_max_len == limit - suffix_len
         IN  PySliceTo(stem(name), stem_max_len) \o suffix(name)
    ELSE name

truncate_file_name(name) == truncate_with_limit(name, MAX_FILENAME_LENGTH)

(***************************************************************************)
(* main.py: get_unique_filename.  `present` is the set of names that exist *)
(* in the directory; every candidate is looked up again.                   *)
(***************************************************************************)
RECURSIVE unique_from(_, _, _, _)
unique_from(present, st, suf, counter) ==
    LET new_name == counter_name(st, counter, suf)
    IN  IF new_name \notin present THEN new_name
        ELSE unique_from(present, st, suf, counter + 1)

\* variant: the first counter is returned without looking it up
get_unique_filename_first_counter(present, base_name) ==
    IF base_name \notin present THEN base_name
    ELSE counter_name(stem(base_name), 1, suffix(base_name))

get_unique_filename(present, base_name) ==
    IF base_name \notin present THEN base_name
    ELSE unique_from(present, stem(base_name), suffix(base_name), 1)

(***************************************************************************)
(* folder_sorter.py: the resolver written inline in move_files_to_folder.  *)
(* The loop keeps the candidate in target_path and tests it at the top.    *)
(***************************************************************************)
RECURSIVE target_loop(_, _, _, _, _)
target_loop(present, target, st, suf, counter) ==
    IF target \in present
    THEN target_loop(present, counter_name(st, counter, suf), st, suf, counter + 1)
    ELSE target

\* variant: the target is never looked up
resolve_target_no_check(present, name) == name

resolve_target(present, name) ==
    IF name \in present
    THEN target_loop(present, name, stem(name), suffix(name), 1)
    ELSE name

(***************************************************************************)
(* folder_sorter.py: DATE_PATTERN and extract_date_from_filename           *)
(***************************************************************************)
\* (\d{4})(\d{2})(\d{2}) matches at 1-based position i
pattern_matches_at(name, i) ==
    i + 7 <= Len(name) /\ \A k \in i..(i + 7) : name[k] \in Digits

\* re.search: the scan tries each start position from the left
RECURSIVE search_from(_, _)
search_from(name, i) ==
    IF i + 7 > Len(name) THEN 0
    ELSE IF pattern_matches_at(name, i) THEN i
    ELSE search_from(name, i + 1)

\* variant: the last match is taken
DATE_PATTERN_search_last(name) ==
    LET M == {i \in 1..Len(name) : pattern_matches_at(name, i)}
    IN  IF M = {} THEN 0 ELSE CHOOSE i \in M : \A j \in M : j <= i

DATE_PATTERN_search(name) == search_from(name, 1)

extract_date_from_filename(filename) ==
    LET m == DATE_PATTERN_search(filename)
    IN  IF m # 0
        THEN SubSeq(filename, m, m + 3) \o <<"-">> \o
             SubSeq(filename, m + 4, m + 5) \o <<"-">> \o
             SubSeq(filename, m + 6, m + 7)
        ELSE None

(***************************************************************************)
(* The filesystem below the input directory: a set of entries              *)
(* [path, kind, id].  A path is <<name>> (directly in the input directory) *)
(* or <<folder, name>>; id is the path the entry had when the run started  *)
(* (for a folder the run creates, the path it is created at).              *)
(***************************************************************************)
exists(f, path) == \E e \in f : e.path = path
is_file(f, path) == \E e \in f : e.path = path /\ e.kind = "file"
is_dir(f, path) == \E e \in f : e.path = path /\ e.kind = "dir"

\* the names for which (directory / name).exists() is true
names_in(f, dir) ==
    {e.path[Len(dir) + 1] :
        e \in {x \in f : Len(x.path) = Len(dir) + 1 /\ SubSeq(x.path, 1, Len(dir)) = dir}}

\* Path.rename(target) can succeed: the source is there, the target's folder is
\* there, and the target is no folder.  (os.rename replaces a regular file
\* that is at the target.)
rename_can(f, src, dst) ==
    /\ exists(f, src)
    /\ ~is_dir(f, dst)
    /\ Len(dst) = 1 \/ is_dir(f, SubSeq(dst, 1, Len(dst) - 1))

rename(f, src, dst) ==
    LET e == CHOOSE x \in f : x.path = src
    IN  {x \in f : x.path # src /\ x.path # dst}
            \cup {[path |-> dst, kind |-> e.kind, id |-> e.id]}

\* Path.mkdir(parents=True, exist_ok=True) succeeding
mkdir(f, path) ==
    IF is_dir(f, path) THEN f
    ELSE f \cup {[path |-> path, kind |-> "dir", id |-> path]}

\* every order in which iterdir() can yield the entries of S
RECURSIVE Orders(_)
Orders(S) ==
    IF S = {} THEN {<< >>}
    ELSE UNION {{<<x>> \o p : p \in Orders(S \ {x})} : x \in S}

\* [f for f in directory.iterdir() if f.is_file() and not f.name.startswith('.')]
\* iterdir() yields the entries in any order: the lists this can build
list_files(f) ==
    Orders({n \in names_in(f, << >>) : is_file(f, <<n>>) /\ ~startswith_dot(n)})

(***************************************************************************)
(* folder_sorter.py: group_files_by_date and the split done by main.  A    *)
(* dict is the sequence of its items in insertion order.                   *)
(***************************************************************************)
dict_keys(d) == {d[i].key : i \in 1..Len(d)}

\* d[key].append(name) on a defaultdict(list)
dict_append(d, key, name) ==
    IF key \in dict_keys(d)
    THEN [i \in 1..Len(d) |->
            IF d[i].key = key THEN [d[i] EXCEPT !.files = Append(@, name)] ELSE d[i]]
    ELSE Append(d, [key |-> key, files |-> <<name>>])

RECURSIVE group_from(_, _, _)
group_from(d, names, i) ==
    IF i > Len(names) THEN d
    ELSE group_from(dict_append(d, extract_date_from_filename(names[i]), names[i]),
                    names, i + 1)

group_files_by_date(names) == group_from(<< >>, names, 1)

\* variant: a date with one file gets a folder too
files_to_sort_keeps_singles(groups) ==
    LET sorts(g) == g.key # None /\ Len(g.files) >= 1
    IN  SelectSeq(groups, sorts)

\* files_to_sort after the loop of main
files_to_sort_of(groups) ==
    LET sorts(g) == g.key # None /\ Len(g.files) >= 2
    IN  SelectSeq(groups, sorts)

RECURSIVE unsorted_from(_, _, _)
unsorted_from(acc, groups, i) ==
    IF i > Len(groups) THEN acc
    ELSE IF groups[i].key = None \/ Len(groups[i].files) < 2
         THEN unsorted_from(acc \o groups[i].files, groups, i + 1)
         ELSE unsorted_from(acc, groups, i + 1)

\* variant: a date with one file is in neither output
files_to_unsorted_only_undated(groups) ==
    LET undated(g) == g.key = None
    IN  IF \E i \in 1..Len(groups) : undated(groups[i])
        THEN (SelectSeq(groups, undated))[1].files
        ELSE << >>

\* files_to_unsorted after the loop of main
files_to_unsorted_of(groups) == unsorted_from(<< >>, groups, 1)

RECURSIVE SumLen(_, _)
SumLen(groups, i) ==
    IF i > Len(groups) THEN 0 ELSE Len(groups[i].files) + SumLen(groups, i + 1)

(***************************************************************************)
(* Values of the variables a specification does not use                    *)
(***************************************************************************)
NoCounts == [renamed_count |-> 0, skipped_count |-> 0, error_count |-> 0,
             moved_count |-> 0, moved_to_dates |-> 0, moved_to_unsorted |-> 0,
             current_file_index |-> 0]

RunIdle ==
    /\ prog = "none" /\ pc = "idle" /\ fs = {} /\ fs0 = {}
    /\ listing = << >> /\ files = << >> /\ target_folder = << >>
    /\ date_groups = << >> /\ files_to_sort = << >>
    /\ files_to_unsorted = << >> /\ total_files = 0 /\ idx = 0 /\ bucket = 0
    /\ counts = NoCounts /\ log = << >>

FnIdle == fn = "none" /\ arg = << >> /\ res = << >>

\* every sequence over S of length at most n
SeqsUpTo(S, n) == UNION {[1..k -> S] : k \in 0..n}

(***************************************************************************)
(* Harness: truncate_file_name applied to a name, then to its own result   *)
(***************************************************************************)
TruncAlphabet == {"a", "b", "."}

InitTruncate ==
    /\ fn = "truncate"
    /\ arg \in [name : SeqsUpTo(TruncAlphabet, MaxNameLen), limit : 0..MaxLimit]
    /\ res = << >>
    /\ RunIdle

TruncateOnce ==
    /\ fn = "truncate" /\ Len(res) = 0
    /\ res' = <<truncate_with_limit(arg.name, arg.limit)>>
    /\ UNCHANGED <<fn, arg>> /\ UNCHANGED runvars

TruncateAgain ==
    /\ fn = "truncate" /\ Len(res) = 1
    /\ res' = Append(res, truncate_with_limit(res[1], arg.limit))
    /\ UNCHANGED <<fn, arg>> /\ UNCHANGED runvars

NextTruncate == TruncateOnce \/ TruncateAgain

SpecTruncate == InitTruncate /\ [][NextTruncate]_vars

(***************************************************************************)
(* Harness: both resolvers on one directory snapshot                       *)
(***************************************************************************)
ResolveBases ==
    { <<"r", ".", "p">>,            \* stem "r", suffix ".p"
      <<"r">>,                      \* no suffix
      <<".", "h">>,                 \* leading dot: no suffix
      <<"a", ".", "b", ".", "c">> } \* suffix is the last dotted part

\* the names whose presence can matter to the resolution of base_name
ResolveCandidates(base_name) ==
    {base_name} \cup
    {counter_name(stem(base_name), n, suffix(base_name)) : n \in 1..MaxCounter}

InitResolve ==
    /\ fn = "resolve"
    /\ \E b \in ResolveBases :
         \E present \in SUBSET ResolveCandidates(b) :
            arg = [present |-> present, base_name |-> b]
    /\ res = << >>
    /\ RunIdle

ResolveMain ==
    /\ fn = "resolve" /\ Len(res) = 0
    /\ res' = <<get_unique_filename(arg.present, arg.base_name)>>
    /\ UNCHANGED <<fn, arg>> /\ UNCHANGED runvars

ResolveInline ==
    /\ fn = "resolve" /\ Len(res) = 1
    /\ res' = Append(res, resolve_target(arg.present, arg.base_name))
    /\ UNCHANGED <<fn, arg>> /\ UNCHANGED runvars

NextResolve == ResolveMain \/ ResolveInline

SpecResolve == InitResolve /\ [][NextResolve]_vars

(***************************************************************************)
(* Harness: extract_date_from_filename                                     *)
(***************************************************************************)
DateAlphabet == {"1", "2", "x"}

InitClassify ==
    /\ fn = "classify"
    /\ arg \in SeqsUpTo(DateAlphabet, MaxDateLen)
    /\ res = << >>
    /\ RunIdle

Classify ==
    /\ fn = "classify" /\ Len(res) = 0
    /\ res' = <<extract_date_from_filename(arg)>>
    /\ UNCHANGED <<fn, arg>> /\ UNCHANGED runvars

NextClassify == Classify

SpecClassify == InitClassify /\ [][NextClassify]_vars

(***************************************************************************)
(* Claims about the pure functions                                         *)
(***************************************************************************)
TruncatedOnce == fn = "truncate" /\ Len(res) >= 1
TruncatedTwice == fn = "truncate" /\ Len(res) = 2

\* C5 (as stated): for all names and every maximum length L,
\* truncate(truncate(name, L), L) = truncate(name, L), the second call splitting
\* its argument into stem and extension afresh.
C5_TruncateIdempotent == TruncatedTwice => res[2] = res[1]

\* C5 (amended): for every name whose extension is no longer than L,
\* truncate(truncate(name, L), L) = truncate(name, L).
C5_TruncateIdempotentShortExt ==
    (TruncatedTwice /\ Len(suffix(arg.name)) <= arg.limit) => res[2] = res[1]

C5_Witness ==
    /\ TruncatedTwice
    /\ Len(arg.name) > arg.limit
    /\ suffix(arg.name) # << >>
    /\ Len(suffix(arg.name)) <= arg.limit
    /\ res[1] # arg.name

\* C6: a name no longer than L is returned unchanged; a longer one becomes a
\* prefix of its stem followed by its whole extension, the prefix being
\* stem[0 : L - len(extension)]: the result has length exactly L when the
\* extension is no longer than L, and otherwise the stem loses its last
\* len(extension) - L characters.
C6_TruncateResult ==
    TruncatedOnce =>
        LET n == arg.name
            L == arg.limit
            r == res[1]
            e == Len(suffix(n))
            k == Len(r) - e
        IN  /\ Len(n) <= L => r = n
            /\ Len(n) > L =>
                 /\ k >= 0
                 /\ \A i \in 1..k : r[i] = n[i]
                 /\ \A i \in 1..e : r[k + i] = n[Len(n) - e + i]
                 /\ e <= L => Len(r) = L
                 /\ e > L => k = Max(0, Len(n) - e - (e - L))

C6_Witness ==
    /\ TruncatedOnce
    /\ Len(arg.name) > arg.limit
    /\ suffix(arg.name) # << >>
    /\ Len(suffix(arg.name)) < arg.limit
    /\ Len(res[1]) = arg.limit

Resolved == fn = "resolve" /\ Len(res) = 2

\* C4: on a fixed directory snapshot both resolvers return the desired name when
\* it is absent, and otherwise stem_N + extension for the smallest N >= 1 whose
\* name is absent; the name returned is never present in the directory.
C4_LowestFreeName ==
    Resolved =>
        \A j \in 1..2 :
            LET r   == res[j]
                b   == arg.base_name
                nm(n) == counter_name(stem(b), n, suffix(b))
            IN  /\ r \notin arg.present
                /\ b \notin arg.present => r = b
                /\ b \in arg.present =>
                     \E n \in 1..(Cardinality(arg.present) + 1) :
                        /\ r = nm(n)
                        /\ \A m \in 1..(n - 1) : nm(m) \in arg.present

\* report.pdf and report_1.pdf present: report.pdf resolves to report_2.pdf
C4_Witness ==
    /\ Resolved
    /\ arg.base_name = <<"r", ".", "p">>
    /\ arg.present = {<<"r", ".", "p">>, <<"r", "_", "1", ".", "p">>}
    /\ res[1] = <<"r", "_", "2", ".", "p">>
    /\ res[2] = <<"r", "_", "2", ".", "p">>

Classified == fn = "classify" /\ Len(res) = 1

HasDigitRunAt(name, i) ==
    i >= 1 /\ i + 7 <= Len(name) /\ \A k \in 0..7 : name[i + k] \in Digits

\* C8: the result is None exactly when the name holds no 8 consecutive digits;
\* otherwise it is the 8 digits at the leftmost such position, as
\* dddd-dd-dd, whatever the digits are.
C8_FirstDigitRun ==
    Classified =>
        LET runs == {i \in 1..Len(arg) : HasDigitRunAt(arg, i)}
            r    == res[1]
        IN  /\ (r = None) <=> (runs = {})
            /\ runs # {} =>
                 LET i == CHOOSE x \in runs : \A y \in runs : x <= y
                 IN  /\ Len(r) = 10
                     /\ r[5] = "-" /\ r[8] = "-"
                     /\ \A k \in 1..4 : r[k] = arg[i + k - 1]
                     /\ \A k \in 1..2 : r[5 + k] = arg[i + 3 + k]
                     /\ \A k \in 1..2 : r[8 + k] = arg[i + 5 + k]

\* a name with two different 8-digit runs, the first of them taken
C8_Witness ==
    /\ Classified
    /\ arg = <<"1", "2", "1", "1", "1", "1", "1", "1", "2">>
    /\ res[1] = <<"1", "2", "1", "1", "-", "1", "1", "-", "1", "1">>

(***************************************************************************)
(* The input directories the orchestrators are run on                      *)
(***************************************************************************)
ROOT == << >>

D1 == <<"2", "0", "2", "4", "0", "1", "0", "1">>
D2 == <<"2", "0", "2", "4", "0", "1", "0", "2">>
FOLDER_D1 == <<"2", "0", "2", "4", "-", "0", "1", "-", "0", "1">>
A_D1 == <<"a">> \o D1 \o <<".", "t">>
B_D1 == <<"b">> \o D1 \o <<".", "t">>
C_D2 == <<"c">> \o D2 \o <<".", "t">>
E_D2 == <<"e">> \o D2 \o <<".", "t">>
NO_DATE == <<"c", ".", "t">>
HIDDEN_D1 == <<".", "h">> \o D1

LONG_A == Rep("a", 110) \o <<".", "t">>
LONG_B == Rep("a", 120) \o <<".", "t">>
FITS == Rep("a", 98) \o <<".", "t">>
LONG_NO_EXT == Rep("n", 103)
LONG_EXT == <<"a", ".">> \o Rep("b", 104)
HIDDEN_LONG == <<".">> \o Rep("h", 110)
LONG_DIR == Rep("d", 105)

File(path) == [path |-> path, kind |-> "file"]
Dir(path) == [path |-> path, kind |-> "dir"]

\* regular, non-hidden files directly in the input directory
ListedCandidates(p) ==
    IF p = "sort"
    THEN {File(<<A_D1>>), File(<<B_D1>>), File(<<C_D2>>), File(<<E_D2>>),
          File(<<NO_DATE>>), File(<<UNSORTED_FOLDER_NAME>>)}
    ELSE {File(<<LONG_A>>), File(<<LONG_B>>), File(<<FITS>>), File(<<LONG_NO_EXT>>),
          File(<<LONG_EXT>>)}

\* hidden files, folders and what the folders hold
OtherCandidates(p) ==
    IF p = "sort"
    THEN {File(<<HIDDEN_D1>>), Dir(<<FOLDER_D1>>), Dir(<<UNSORTED_FOLDER_NAME>>),
          File(<<FOLDER_D1, A_D1>>), File(<<UNSORTED_FOLDER_NAME, NO_DATE>>)}
    ELSE {File(<<HIDDEN_LONG>>), Dir(<<LONG_DIR>>), File(<<LONG_DIR, LONG_A>>)}

\* no two entries at one path, and every entry of a folder has its folder
WellFormed(E) ==
    /\ \A x, y \in E : x.path = y.path => x = y
    /\ \A x \in E : Len(x.path) = 2 => Dir(<<x.path[1]>>) \in E

Entries(E) == {[path |-> x.path, kind |-> x.kind, id |-> x.path] : x \in E}

\* a run of program p about to start
InitRun(p) ==
    /\ FnIdle
    /\ prog = p
    /\ \E L \in SUBSET ListedCandidates(p), O \in SUBSET OtherCandidates(p) :
          /\ Cardinality(L) <= MaxListed
          /\ Cardinality(O) <= MaxOther
          /\ WellFormed(L \cup O)
          /\ fs = Entries(L \cup O)
    /\ fs0 = fs
    /\ pc = "start"
    /\ listing = << >> /\ files = << >> /\ target_folder = << >>
    /\ date_groups = << >> /\ files_to_sort = << >> /\ files_to_unsorted = << >>
    /\ total_files = 0 /\ idx = 0 /\ bucket = 0
    /\ counts = NoCounts /\ log = << >>

Init == InitRun("sort") \/ InitRun("trunc")

Outcome(name, folder, target, outcome, existed) ==
    [name |-> name, folder |-> folder, target |-> target, outcome |-> outcome,
     target_existed |-> existed]

(***************************************************************************)
(* main.py: main                                                           *)
(***************************************************************************)
\* lines 32-43: the listing, the early return, the counters
TruncScan ==
    /\ prog = "trunc" /\ pc = "start"
    /\ \E found \in list_files(fs) :
          /\ listing' = found
          /\ total_files' = Len(listing')
          /\ pc' = IF total_files' = 0 THEN "nofiles" ELSE "loop"
    /\ idx' = 0
    /\ counts' = NoCounts
    /\ UNCHANGED <<prog, fs, fs0, files, target_folder, date_groups, files_to_sort,
                   files_to_unsorted, bucket, log>>
    /\ UNCHANGED fnvars

\* where the run is after one more file of the loop: line 76 follows the last
AfterFile == IF idx + 1 = total_files THEN "summary" ELSE "loop"

\* lines 45-62: the name changes and the rename succeeds
TruncRename ==
    /\ prog = "trunc" /\ pc = "loop" /\ idx < total_files
    /\ LET name == listing[idx + 1]
           new_file_name == truncate_file_name(name)
           unique_file_name == get_unique_filename(names_in(fs, ROOT), new_file_name)
       IN  /\ new_file_name # name
           /\ rename_can(fs, <<name>>, <<unique_file_name>>)
           /\ fs' = rename(fs, <<name>>, <<unique_file_name>>)
           /\ log' = Append(log, Outcome(name, ROOT, unique_file_name, "renamed",
                                         exists(fs, <<unique_file_name>>)))
    /\ counts' = [counts EXCEPT !.renamed_count = @ + 1]
    /\ idx' = idx + 1
    /\ pc' = AfterFile
    /\ UNCHANGED <<prog, fs0, listing, files, target_folder, date_groups,
                   files_to_sort, files_to_unsorted, total_files, bucket>>
    /\ UNCHANGED fnvars

\* lines 63-65: the name is already short enough
TruncSkip ==
    /\ prog = "trunc" /\ pc = "loop" /\ idx < total_files
    /\ LET name == listing[idx + 1]
       IN  /\ truncate_file_name(name) = name
           /\ log' = Append(log, Outcome(name, ROOT, name, "skipped", FALSE))
    /\ counts' = [counts EXCEPT !.skipped_count = @ + 1]
    /\ idx' = idx + 1
    /\ pc' = AfterFile
    /\ UNCHANGED <<prog, fs, fs0, listing, files, target_folder, date_groups,
                   files_to_sort, files_to_unsorted, total_files, bucket>>
    /\ UNCHANGED fnvars

\* variant: an error ends the loop
TruncError_stops_loop ==
    /\ prog = "trunc" /\ pc = "loop" /\ idx < total_files
    /\ truncate_file_name(listing[idx + 1]) # listing[idx + 1]
    /\ counts' = [counts EXCEPT !.error_count = @ + 1]
    /\ log' = Append(log, Outcome(listing[idx + 1], ROOT, << >>, "failed", FALSE))
    /\ idx' = idx + 1
    /\ pc' = "summary"
    /\ UNCHANGED <<prog, fs, fs0, listing, files, target_folder, date_groups,
                   files_to_sort, files_to_unsorted, total_files, bucket>>
    /\ UNCHANGED fnvars

\* lines 66-74: the existence check or the rename raises (permission denied,
\* file not found, anything else); the three handlers do the same
TruncError ==
    /\ prog = "trunc" /\ pc = "loop" /\ idx < total_files
    /\ truncate_file_name(listing[idx + 1]) # listing[idx + 1]
    /\ counts' = [counts EXCEPT !.error_count = @ + 1]
    /\ log' = Append(log, Outcome(listing[idx + 1], ROOT, << >>, "failed", FALSE))
    /\ idx' = idx + 1
    /\ pc' = AfterFile
    /\ UNCHANGED <<prog, fs, fs0, listing, files, target_folder, date_groups,
                   files_to_sort, files_to_unsorted, total_files, bucket>>
    /\ UNCHANGED fnvars

(***************************************************************************)
(* folder_sorter.py: main and move_files_to_folder                         *)
(***************************************************************************)
\* where main is once `b` date buckets are moved: the next bucket (line 150),
\* the Unsorted batch (line 159) or the summary (line 170)
position_after(b, to_sort, to_unsorted) ==
    IF b < Len(to_sort) THEN "mkdir_date"
    ELSE IF to_unsorted # << >> THEN "mkdir_unsorted"
    ELSE "summary"

\* lines 119-147: group_files_by_date, the split, the total, the early return
SortScan ==
    /\ prog = "sort" /\ pc = "start"
    /\ \E found \in list_files(fs) :
          LET groups == group_files_by_date(found)
          IN  /\ listing' = found
              /\ date_groups' = groups
              /\ files_to_sort' = files_to_sort_of(groups)
              /\ files_to_unsorted' = files_to_unsorted_of(groups)
              /\ total_files' = SumLen(groups, 1)
              /\ pc' = IF total_files' = 0 THEN "nofiles"
                       ELSE position_after(0, files_to_sort', files_to_unsorted')
    /\ idx' = 0 /\ bucket' = 0
    /\ counts' = NoCounts
    /\ UNCHANGED <<prog, fs, fs0, files, target_folder, log>>
    /\ UNCHANGED fnvars

\* the folder and the batch of the call of move_files_to_folder that is next
NextFolder == IF pc = "mkdir_date" THEN files_to_sort[bucket + 1].key
              ELSE UNSORTED_FOLDER_NAME
NextBatch == IF pc = "mkdir_date" THEN files_to_sort[bucket + 1].files
             ELSE files_to_unsorted

\* lines 82-83: target_folder.mkdir(parents=True, exist_ok=True) succeeds
MkdirOk ==
    /\ prog = "sort" /\ pc \in {"mkdir_date", "mkdir_unsorted"}
    /\ ~is_file(fs, <<NextFolder>>)
    /\ fs' = mkdir(fs, <<NextFolder>>)
    /\ target_folder' = NextFolder
    /\ files' = NextBatch
    /\ idx' = 0
    /\ counts' = [counts EXCEPT !.moved_count = 0]
    /\ pc' = IF pc = "mkdir_date" THEN "move_date" ELSE "move_unsorted"
    /\ UNCHANGED <<prog, fs0, listing, date_groups, files_to_sort, files_to_unsorted,
                   total_files, bucket, log>>
    /\ UNCHANGED fnvars

\* line 82 raises, outside any try block: FileExistsError when a regular file
\* has the folder's name, PermissionError or another OSError otherwise
MkdirRaises ==
    /\ prog = "sort" /\ pc \in {"mkdir_date", "mkdir_unsorted"}
    /\ pc' = "crashed"
    /\ UNCHANGED <<prog, fs, fs0, listing, files, target_folder, date_groups,
                   files_to_sort, files_to_unsorted, total_files, idx, bucket,
                   counts, log>>
    /\ UNCHANGED fnvars

\* lines 85-103: one file is moved
MoveFile ==
    /\ prog = "sort" /\ pc \in {"move_date", "move_unsorted"} /\ idx < Len(files)
    /\ LET name == files[idx + 1]
           target == resolve_target(names_in(fs, <<target_folder>>), name)
       IN  /\ rename_can(fs, <<name>>, <<target_folder, target>>)
           /\ fs' = rename(fs, <<name>>, <<target_folder, target>>)
           /\ log' = Append(log, Outcome(name, <<target_folder>>, target, "renamed",
                                         exists(fs, <<target_folder, target>>)))
    /\ counts' = [counts EXCEPT !.moved_count = @ + 1]
    /\ idx' = idx + 1
    /\ UNCHANGED <<prog, pc, fs0, listing, files, target_folder, date_groups,
                   files_to_sort, files_to_unsorted, total_files, bucket>>
    /\ UNCHANGED fnvars

\* lines 104-109: the existence check or the rename raises; the loop goes on
MoveError ==
    /\ prog = "sort" /\ pc \in {"move_date", "move_unsorted"} /\ idx < Len(files)
    /\ log' = Append(log, Outcome(files[idx + 1], <<target_folder>>, << >>, "failed", FALSE))
    /\ idx' = idx + 1
    /\ UNCHANGED <<prog, pc, fs, fs0, listing, files, target_folder, date_groups,
                   files_to_sort, files_to_unsorted, total_files, bucket, counts>>
    /\ UNCHANGED fnvars

\* line 111 and lines 153-156 (a date bucket) or 162-168 (the Unsorted batch)
MoveReturn ==
    /\ prog = "sort" /\ pc \in {"move_date", "move_unsorted"} /\ idx = Len(files)
    /\ IF pc = "move_date"
       THEN /\ counts' = [counts EXCEPT
                             !.moved_to_dates = @ + counts.moved_count,
                             !.current_file_index = @ + Len(files)]
            /\ bucket' = bucket + 1
            /\ pc' = position_after(bucket + 1, files_to_sort, files_to_unsorted)
       ELSE /\ counts' = [counts EXCEPT !.moved_to_unsorted = counts.moved_count]
            /\ bucket' = bucket
            /\ pc' = "summary"
    /\ UNCHANGED <<prog, fs, fs0, listing, files, target_folder, date_groups,
                   files_to_sort, files_to_unsorted, total_files, idx, log>>
    /\ UNCHANGED fnvars

Next ==
    \/ TruncScan \/ TruncRename \/ TruncSkip \/ TruncError
    \/ SortScan \/ MkdirOk \/ MkdirRaises \/ MoveFile \/ MoveError \/ MoveReturn

Spec == Init /\ [][Next]_vars

\* the scan of folder_sorter.main alone
InitGroup == InitRun("sort")

NextGroup == SortScan

SpecGroup == InitGroup /\ [][NextGroup]_vars

(***************************************************************************)
(* Claims about the runs                                                   *)
(***************************************************************************)
\* the regular, non-hidden files that were directly in the input directory
Listed0 ==
    {e.path[1] : e \in {x \in fs0 : Len(x.path) = 1 /\ x.kind = "file"
                                       /\ x.path[1][1] # "."}}

\* where the entry that started at path `id` is now
PathOf(id) == (CHOOSE e \in fs : e.id = id).path

LogCount(o) == Cardinality({i \in 1..Len(log) : log[i].outcome = o})

InRun == prog # "none"
Stopped == pc \in {"summary", "nofiles", "crashed"}

\* C1: whatever the directory holds and whatever the filesystem operations
\* answer, a run that has ended has ended at its summary (or at the report
\* that no file was found): creating a folder or moving a file never ends it
\* earlier.
C1_RunEndsAtSummary == (InRun /\ Stopped) => pc \in {"summary", "nofiles"}

\* every file attempted so far is where its outcome says
OutcomesInPlace ==
    \A i \in 1..Len(log) :
        LET o == log[i]
        IN  IF o.outcome = "renamed"
            THEN [path |-> o.folder \o <<o.target>>, kind |-> "file", id |-> <<o.name>>] \in fs
            ELSE [path |-> <<o.name>>, kind |-> "file", id |-> <<o.name>>] \in fs

RECURSIVE Flatten(_, _)
Flatten(groups, i) ==
    IF i > Len(groups) THEN << >> ELSE groups[i].files \o Flatten(groups, i + 1)

\* C2: files are attempted once each, in order; a failed rename leaves the
\* earlier renames in place and the later files are still attempted; in the
\* truncation run renamed + skipped + errors = N at the summary, each file
\* counted once; move_files_to_folder returns the number of renames that
\* succeeded.
C2_ErrorIsolation ==
    /\ InRun => OutcomesInPlace
    /\ prog = "trunc" =>
         /\ Len(log) = idx
         /\ \A i \in 1..Len(log) : log[i].name = listing[i]
         /\ counts.renamed_count = LogCount("renamed")
         /\ counts.skipped_count = LogCount("skipped")
         /\ counts.error_count = LogCount("failed")
         /\ pc = "summary" =>
              /\ Len(log) = Cardinality(Listed0)
              /\ counts.renamed_count + counts.skipped_count + counts.error_count
                    = Cardinality(Listed0)
    /\ prog = "sort" =>
         /\ pc \in {"move_date", "move_unsorted"} =>
              /\ idx <= Len(log)
              /\ \A j \in 1..idx : log[Len(log) - idx + j].name = files[j]
              /\ counts.moved_count =
                    Cardinality({j \in 1..idx : log[Len(log) - idx + j].outcome = "renamed"})
              /\ counts.moved_to_dates + counts.moved_to_unsorted + counts.moved_count
                    = LogCount("renamed")
         /\ pc \notin {"move_date", "move_unsorted"} =>
              /\ counts.moved_to_dates + counts.moved_to_unsorted = LogCount("renamed")
              /\ counts.moved_to_unsorted =
                    Cardinality({i \in 1..Len(log) :
                        log[i].outcome = "renamed" /\ log[i].folder = <<UNSORTED_FOLDER_NAME>>})
         /\ pc = "summary" =>
              /\ Len(log) = Cardinality(Listed0)
              /\ [i \in 1..Len(log) |-> log[i].name]
                    = Flatten(files_to_sort, 1) \o files_to_unsorted

\* a truncation run of three files whose second rename failed, between a
\* rename that was done before it and one that was done after it
C2_Witness ==
    /\ prog = "trunc" /\ pc = "summary" /\ Len(log) = 3
    /\ log[1].outcome = "renamed" /\ log[2].outcome = "failed"
    /\ log[3].outcome = "renamed"
    /\ counts.renamed_count = 2 /\ counts.error_count = 1

FileIds(f) == {e.id : e \in {x \in f : x.kind = "file"}}

\* C3: no rename targets a path that exists; no regular file is deleted,
\* overwritten or created, so their number stays the same; every hidden
\* entry, folder and folder content that was there keeps its path; only
\* folders are new; the total counts neither hidden entries nor folders.
C3_OnlyRelocates ==
    InRun =>
        /\ \A i \in 1..Len(log) : log[i].outcome = "renamed" => ~log[i].target_existed
        /\ FileIds(fs) = FileIds(fs0)
        /\ Cardinality({x \in fs : x.kind = "file"})
              = Cardinality({x \in fs0 : x.kind = "file"})
        /\ \A e \in fs0 :
              (e.kind = "dir" \/ Len(e.path) = 2 \/ e.path[1][1] = ".") => e \in fs
        /\ \A e \in fs : e.kind = "file" \/ e.id = e.path
        /\ pc # "start" => total_files = Cardinality(Listed0)

\* a finished date-sort run that moved a file into a folder where its name was
\* taken, next to a hidden file that stayed
C3_Witness ==
    /\ prog = "sort" /\ pc = "summary"
    /\ \E i \in 1..Len(log) : log[i].outcome = "renamed" /\ log[i].target # log[i].name
    /\ \E e \in fs : Len(e.path) = 1 /\ e.path[1][1] = "."

DateKey(n) == extract_date_from_filename(n)

\* the listed files that share their date with another listed file
SharesDate(n) ==
    /\ DateKey(n) # None
    /\ Cardinality({m \in Listed0 : DateKey(m) = DateKey(n)}) >= 2

PosIn(seq, x) == CHOOSE i \in 1..Len(seq) : seq[i] = x

\* where the bucket of n was first met in the listing
FirstMet(n) ==
    LET I == {i \in 1..Len(listing) : DateKey(listing[i]) = DateKey(n)}
    IN  CHOOSE i \in I : \A j \in I : i <= j

IsInjective(seq) == \A i, j \in 1..Len(seq) : seq[i] = seq[j] => i = j

\* C7: the date buckets and the overflow list split the listed files: every
\* bucket has a date key, holds exactly the listed files of that date, in
\* listing order, and at least 2 of them; the overflow list holds exactly the
\* other files, ordered by where their bucket was first met; no file is in two
\* places or twice in one.
C7_GroupingPartition ==
    (prog = "sort" /\ pc # "start") =>
        /\ IsInjective(listing)
        /\ {listing[i] : i \in 1..Len(listing)} = Listed0
        /\ \A i, j \in 1..Len(files_to_sort) :
              files_to_sort[i].key = files_to_sort[j].key => i = j
        /\ \A i \in 1..Len(files_to_sort) :
              LET g == files_to_sort[i]
                  has_key(n) == DateKey(n) = g.key
              IN  /\ g.key # None
                  /\ g.files = SelectSeq(listing, has_key)
                  /\ Len(g.files) >= 2
        /\ {files_to_sort[i].key : i \in 1..Len(files_to_sort)}
              = {DateKey(n) : n \in {m \in Listed0 : SharesDate(m)}}
        /\ IsInjective(files_to_unsorted)
        /\ {files_to_unsorted[i] : i \in 1..Len(files_to_unsorted)}
              = {n \in Listed0 : ~SharesDate(n)}
        /\ \A i, j \in 1..Len(files_to_unsorted) :
              LET x == files_to_unsorted[i]
                  y == files_to_unsorted[j]
              IN  i < j => \/ FirstMet(x) < FirstMet(y)
                           \/ /\ FirstMet(x) = FirstMet(y)
                              /\ PosIn(listing, x) < PosIn(listing, y)
        /\ SumLen(files_to_sort, 1) + Len(files_to_unsorted) = Len(listing)

\* a file without a date met first, then a date with two files and, between
\* them, a date with one file
C7_Witness ==
    /\ prog = "sort" /\ pc # "start"
    /\ listing = <<NO_DATE, A_D1, C_D2, B_D1>>
    /\ files_to_sort = <<[key |-> FOLDER_D1, files |-> <<A_D1, B_D1>>]>>
    /\ files_to_unsorted = <<NO_DATE, C_D2>>

\* C9: in a date-sort run no folder move comes after a move to Unsorted, and
\* Unsorted is created only when some file goes there; when the run ends with
\* no move failed, every listed file that shares its date is in the folder of
\* that date, every other listed file is in Unsorted, none is left in the input
\* directory, and the two totals reported are the sizes of these two groups.
C9_SortEndState ==
    prog = "sort" =>
        /\ \A i, j \in 1..Len(log) :
              (i < j /\ log[i].folder = <<UNSORTED_FOLDER_NAME>>)
                  => log[j].folder = <<UNSORTED_FOLDER_NAME>>
        /\ (is_dir(fs, <<UNSORTED_FOLDER_NAME>>) /\ ~is_dir(fs0, <<UNSORTED_FOLDER_NAME>>))
              => \E n \in Listed0 : ~SharesDate(n)
        /\ (pc = "summary" /\ LogCount("failed") = 0) =>
              /\ \A n \in Listed0 :
                    /\ Len(PathOf(<<n>>)) = 2
                    /\ PathOf(<<n>>)[1] =
                          IF SharesDate(n) THEN DateKey(n) ELSE UNSORTED_FOLDER_NAME
              /\ counts.moved_to_dates = Cardinality({n \in Listed0 : SharesDate(n)})
              /\ counts.moved_to_unsorted = Cardinality({n \in Listed0 : ~SharesDate(n)})

\* the end-to-end scenario: two files of one date and one without a date
C9_Witness ==
    /\ prog = "sort" /\ pc = "summary" /\ LogCount("failed") = 0
    /\ Listed0 = {A_D1, B_D1, NO_DATE}
    /\ PathOf(<<A_D1>>) = <<FOLDER_D1, A_D1>>
    /\ PathOf(<<B_D1>>) = <<FOLDER_D1, B_D1>>
    /\ PathOf(<<NO_DATE>>) = <<UNSORTED_FOLDER_NAME, NO_DATE>>
    /\ counts.moved_to_dates = 2 /\ counts.moved_to_unsorted = 1

\* C10: after a truncation run in which no file failed, every listed file
\* whose extension is no longer than the maximum has a name no longer than the
\* maximum, collision counter included.
C10_FinalNamesWithinLimit ==
    (prog = "trunc" /\ pc = "summary" /\ LogCount("failed") = 0) =>
        \A n \in Listed0 :
            Len(suffix(n)) <= MAX_FILENAME_LENGTH
                => Len(PathOf(<<n>>)[1]) <= MAX_FILENAME_LENGTH

=============================================================================
